---- MODULE Spec2Model ----
(***************************************************************************)
(* Model of dashboard/src/t5gweb/t5gweb.py: get_new_cases,                 *)
(* get_new_comments and the hyperlink rewriting of comment bodies.         *)
(*                                                                         *)
(* Strings the code inspects character by character (account names,        *)
(* summaries, tags, severities) are tuples of one-character strings.       *)
(* Comment bodies are tuples of tokens (see TextTokens).  Timestamps are   *)
(* whole hours; timedelta.days is floor(hours / 24).                       *)
(***************************************************************************)
EXTENDS Integers, Sequences, FiniteSets, TLC

VARIABLES
    pc,              \* position in the function being run
    cfg,             \* the dict set_cfg() returned (accounts, query)
    env_accounts,    \* key order of json.loads(os.environ['accounts'])
    cards,           \* conn.search_issues(...) with each card's links and issue
    cases,           \* libtelco5g.get_cases(...)
    cards_dict,      \* card key -> case number or None
    detailed_cards,  \* card key -> detail record
    result,          \* what get_new_comments returned
    cases_json,      \* libtelco5g.get_cases_json(...) in get_new_cases
    new_cases,       \* what get_new_cases returned
    text,            \* a comment body before rewriting
    text1,           \* ... after the two re.sub calls
    text2            \* ... after the two re.sub calls applied again

vars == <<pc, cfg, env_accounts, cards, cases, cards_dict, detailed_cards,
          result, cases_json, new_cases, text, text1, text2>>

commentVars == <<cfg, env_accounts, cards, cases, cards_dict, detailed_cards, result>>
caseVars == <<cases_json, new_cases>>
textVars == <<text, text1, text2>>

----------------------------------------------------------------------------
\* Bounds of the model.

MaxText == 4
MaxCards == 2
MaxCases == 2

----------------------------------------------------------------------------
\* Generic helpers.

Range(s) == {s[i] : i \in 1..Len(s)}

RECURSIVE SeqsUpTo(_, _)
SeqsUpTo(S, n) ==
    IF n = 0 THEN {<<>>}
    ELSE LET shorter == SeqsUpTo(S, n - 1)
         IN  shorter \cup {Append(s, x) : s \in {t \in shorter : Len(t) = n - 1}, x \in S}

\* str.lower() on the letters the model uses.
LowerChar(c) ==
    CASE c = "A" -> "a" [] c = "B" -> "b" [] c = "C" -> "c" [] c = "N" -> "n"
      [] c = "T" -> "t" [] c = "V" -> "v" [] OTHER -> c

Lower(s) == [i \in 1..Len(s) |-> LowerChar(s[i])]

\* Python's `sub in s` on strings.
Contains(sub, s) ==
    \E i \in 1..(Len(s) - Len(sub) + 1) : SubSeq(s, i, i + Len(sub) - 1) = sub

\* timedelta.days of a difference given in hours (floor, also when negative).
Days(hours) == hours \div 24

----------------------------------------------------------------------------
\* Hyperlink rewriting (lines 116-117).
\*
\* A body is a tuple of tokens.  "URL" is one maximal match of
\*   (http|ftp|https)://host.tld(path)?
\* " " is one whitespace character, "|", "[" and "]" are themselves, and "x"
\* is any other character that is neither whitespace nor a URL character
\* (such as '!').  The three markup tokens are the pieces of the replacement
\* strings; none of them ends in whitespace or '|', and none holds ']'.

AOpen == "<a href=\""
AMid == "\" target='_blank'>"
AClose == "</a>"

TextTokens == {"x", " ", "|", "[", "]", "URL"}

\* Length of the whitespace run of t that starts at position i.
RECURSIVE SpaceRun(_, _)
SpaceRun(t, i) ==
    IF i <= Len(t) /\ t[i] = " " THEN 1 + SpaceRun(t, i + 1) ELSE 0

\* Line 116: the match of (?<!\||\s)\s*?(URL) that starts at i, as the
\* position of its last token, or 0 when there is none.
BareMatchEnd(t, i) ==
    LET k == SpaceRun(t, i)
    IN  IF /\ (i = 1 \/ t[i - 1] \notin {"|", " "})
           /\ i + k <= Len(t)
           /\ t[i + k] = "URL"
        THEN i + k
        ELSE 0

\* Line 116: re.sub of every non-overlapping match, left to right, by
\*   <a href="\g<0>" target='_blank'>\g<0></a>
RECURSIVE SubBare(_, _)
SubBare(t, i) ==
    IF i > Len(t) THEN <<>>
    ELSE LET e == BareMatchEnd(t, i)
         IN  IF e = 0
             THEN <<t[i]>> \o SubBare(t, i + 1)
             ELSE <<AOpen>> \o SubSeq(t, i, e) \o <<AMid>> \o SubSeq(t, i, e)
                  \o <<AClose>> \o SubBare(t, e + 1)

\* Line 117: with '[' at i and '|' at j, the rest  \s*?(URL[\s]*)\]  matches:
\* the position of the closing ']', or 0.
BracketTail(t, j) ==
    LET u == j + 1 + SpaceRun(t, j + 1)
        c == u + 1 + SpaceRun(t, u + 1)
    IN  IF u <= Len(t) /\ t[u] = "URL" /\ c <= Len(t) /\ t[c] = "]"
        THEN c ELSE 0

\* Line 117: the '|' the lazy display-text group stops at for a match that
\* starts at the '[' at i (the display text holds no ']'), or 0.
BracketBar(t, i) ==
    LET ok == {j \in (i + 1)..Len(t) :
                 /\ t[j] = "|"
                 /\ \A m \in (i + 1)..(j - 1) : t[m] # "]"
                 /\ BracketTail(t, j) # 0}
    IN  IF t[i] = "[" /\ ok # {}
        THEN CHOOSE j \in ok : \A j2 \in ok : j <= j2
        ELSE 0

\* Line 117: re.sub of every match by  <a href="\2" target='_blank'>\1</a>
RECURSIVE SubBracket(_, _)
SubBracket(t, i) ==
    IF i > Len(t) THEN <<>>
    ELSE LET j == BracketBar(t, i)
         IN  IF j = 0
             THEN <<t[i]>> \o SubBracket(t, i + 1)
             ELSE LET c == BracketTail(t, j)
                      u == j + 1 + SpaceRun(t, j + 1)
                  IN  <<AOpen>> \o SubSeq(t, u, c - 1) \o <<AMid>>
                      \o SubSeq(t, i + 1, j - 1) \o <<AClose>>
                      \o SubBracket(t, c + 1)

\* Lines 116-117 on one comment body.
ReplaceLinks(t) == SubBracket(SubBare(t, 1), 1)

\* Two adjacent URL tokens would be one longer URL.
WellFormedText(t) == \A i \in 1..(Len(t) - 1) : ~(t[i] = "URL" /\ t[i + 1] = "URL")

Texts == {t \in SeqsUpTo(TextTokens, MaxText) : WellFormedText(t)}

----------------------------------------------------------------------------
\* Specification of the rewriting alone.

NoCfg == [accounts |-> <<>>, query |-> ""]

InitLinks ==
    /\ pc = "raw"
    /\ text \in Texts
    /\ text1 = <<>>
    /\ text2 = <<>>
    /\ cfg = NoCfg
    /\ env_accounts = <<>>
    /\ cards = <<>>
    /\ cases = <<>>
    /\ cards_dict = <<>>
    /\ detailed_cards = <<>>
    /\ result = <<>>
    /\ cases_json = <<>>
    /\ new_cases = <<>>

RewriteOnce ==
    /\ pc = "raw"
    /\ text1' = ReplaceLinks(text)
    /\ pc' = "once"
    /\ UNCHANGED <<text, text2, commentVars, caseVars>>

RewriteAgain ==
    /\ pc = "once"
    /\ text2' = ReplaceLinks(text1)
    /\ pc' = "twice"
    /\ UNCHANGED <<text, text1, commentVars, caseVars>>

NextLinks == RewriteOnce \/ RewriteAgain

SpecLinks == InitLinks /\ [][NextLinks]_vars

\* C7: hyperlink rewriting is idempotent: rewriting an already rewritten body
\* leaves it as it is.
C7_RewriteIdempotent == pc = "twice" => text2 = text1

----------------------------------------------------------------------------
\* get_new_cases (lines 35-62).

\* datetime.now(), in hours since an epoch.
TimeNow == 30 * 24

Digits == {"0", "1", "2", "3", "4", "5", "6", "7", "8", "9"}
Letters == {"A", "H", "L", "N", "U", "o", "w"}

\* Code points of the characters severities are made of.
Ord(c) ==
    CASE c = " " -> 32 [] c = "(" -> 40 [] c = ")" -> 41 [] c = "-" -> 45
      [] c = "1" -> 49 [] c = "2" -> 50 [] c = "3" -> 51 [] c = "4" -> 52
      [] c = "A" -> 65 [] c = "H" -> 72 [] c = "L" -> 76 [] c = "N" -> 78
      [] c = "U" -> 85 [] c = "o" -> 111 [] c = "w" -> 119

\* Python's a < b on strings.
RECURSIVE StrLess(_, _)
StrLess(a, b) ==
    IF b = <<>> THEN FALSE
    ELSE IF a = <<>> THEN TRUE
    ELSE IF a[1] # b[1] THEN Ord(a[1]) < Ord(b[1])
    ELSE StrLess(Tail(a), Tail(b))

\* Line 55: sorted(cases, key = lambda i: i['case_severity']), a stable sort.
RECURSIVE InsertBySeverity(_, _)
InsertBySeverity(sorted, c) ==
    IF sorted = <<>> THEN <<c>>
    ELSE IF StrLess(c.case_severity, sorted[1].case_severity)
         THEN <<c>> \o sorted
         ELSE <<sorted[1]>> \o InsertBySeverity(Tail(sorted), c)

RECURSIVE SortedBySeverity(_)
SortedBySeverity(cs) ==
    IF cs = <<>> THEN <<>>
    ELSE InsertBySeverity(SortedBySeverity(SubSeq(cs, 1, Len(cs) - 1)), cs[Len(cs)])

RECURSIVE StripChars(_, _)
StripChars(s, drop) ==
    IF s = <<>> THEN <<>>
    ELSE (IF s[1] \in drop THEN <<>> ELSE <<s[1]>>) \o StripChars(Tail(s), drop)

\* The substitution without its [0-9] alternative.
NormalizeKeepingDigits(s) == StripChars(s, {"(", ")", " "})

\* Line 59: re.sub('\(|\)| |[0-9]', '', case['case_severity'])
NormalizeSeverity(s) == StripChars(s, {"(", ")", " "} \cup Digits)

\* Lines 56-58: time_diff = datetime.now() - create_date; time_diff.days < 7
IsNewCase(case, now) == Days(now - case.case_createdDate) < 7

\* Lines 53-62: the loop over the sorted cases.
RECURSIVE CollectNewCases(_, _)
CollectNewCases(sorted, now) ==
    IF sorted = <<>> THEN <<>>
    ELSE (IF IsNewCase(sorted[1], now)
          THEN <<[sorted[1] EXCEPT !.case_severity = NormalizeSeverity(@)]>>
          ELSE <<>>)
         \o CollectNewCases(Tail(sorted), now)

\* Raw severities: "1 (U)", "2(H)", "Low", "3 (N-A)".
Severities ==
    { <<"1", " ", "(", "U", ")">>,
      <<"2", "(", "H", ")">>,
      <<"L", "o", "w">>,
      <<"3", " ", "(", "N", "-", "A", ")">> }

\* Ages of a case in hours: now, 6 days 23 hours, 7 days, 8 days.
CaseAges == {0, 167, 168, 192}

CaseShapes == [case_severity : Severities, age : CaseAges]

\* The list get_cases_json returns; a case's number is its place in the list.
CasesJson(shapes) ==
    [i \in 1..Len(shapes) |->
        [case_number |-> i,
         case_severity |-> shapes[i].case_severity,
         case_createdDate |-> TimeNow - shapes[i].age]]

InitCases ==
    /\ pc = "get_new_cases"
    /\ cases_json \in {CasesJson(s) : s \in SeqsUpTo(CaseShapes, MaxCases)}
    /\ new_cases = <<>>
    /\ text = <<>>
    /\ text1 = <<>>
    /\ text2 = <<>>
    /\ cfg = NoCfg
    /\ env_accounts = <<>>
    /\ cards = <<>>
    /\ cases = <<>>
    /\ cards_dict = <<>>
    /\ detailed_cards = <<>>
    /\ result = <<>>

GetNewCases ==
    /\ pc = "get_new_cases"
    /\ new_cases' = CollectNewCases(SortedBySeverity(cases_json), TimeNow)
    /\ pc' = "returned"
    /\ UNCHANGED <<cases_json, commentVars, textVars>>

NextCases == GetNewCases

SpecCases == InitCases /\ [][NextCases]_vars

Returned(n) == \E i \in 1..Len(new_cases) : new_cases[i].case_number = n

\* C1 (as claimed): a case is returned iff (today - creation_date).days <= 7,
\* so a case created exactly 7 days ago is returned.
C1_InclusiveSevenDays ==
    pc = "returned" =>
        \A n \in 1..Len(cases_json) :
            Returned(n) <=> Days(TimeNow - cases_json[n].case_createdDate) <= 7

\* C8 (as claimed): the severity of every returned case holds only letters.
C8_SeverityAlphabetic ==
    pc = "returned" =>
        \A i \in 1..Len(new_cases) : Range(new_cases[i].case_severity) \subseteq Letters

\* C8 (amended): the severity of every returned case holds no digit, no
\* parenthesis and no space, every other character of the raw severity is kept
\* in order, and so it holds only letters when the raw severity was made of
\* letters, digits, parentheses and spaces.
C8_SeverityStripped ==
    pc = "returned" =>
        \A i \in 1..Len(new_cases) :
            LET raw == cases_json[new_cases[i].case_number].case_severity
                sev == new_cases[i].case_severity
                noise == {"(", ")", " "} \cup Digits
                kept == {k \in 1..Len(raw) : raw[k] \notin noise}
            IN  /\ Range(sev) \cap noise = {}
                /\ Len(sev) = Cardinality(kept)
                /\ \A k \in kept :
                      sev[Cardinality({m \in kept : m <= k})] = raw[k]
                /\ Range(raw) \subseteq Letters \cup noise => Range(sev) \subseteq Letters

\* A returned case whose raw severity held digits and parentheses.
C8_Witness ==
    /\ pc = "returned"
    /\ \E i \in 1..Len(new_cases) :
          LET raw == cases_json[new_cases[i].case_number].case_severity
          IN  /\ Range(raw) \cap Digits # {}
              /\ "(" \in Range(raw)
              /\ new_cases[i].case_severity # raw
              /\ Range(new_cases[i].case_severity) \subseteq Letters

----------------------------------------------------------------------------
\* get_new_comments (lines 64-137).

\* Python's None as a dictionary value (no case number is this string).
None == "<None>"

EmptyDict == [k \in {} |-> {}]

cnv == <<"c", "n", "v">>
CNV == <<"C", "N", "V">>
At == <<"A", "t">>
ATT == <<"A", "T", "T">>
Bt == <<"B", "t">>

\* The status labels every account of os.environ['accounts'] is given.
StatusLabels == {"Waiting on Customer", "Closed"}

\* An account's value in cfg['accounts']: its per-status dict, or a string.
AccountDict(d) == [type |-> "dict", value |-> d]
AccountStr(s) == [type |-> "str", value |-> s]

\* Line 30: json.loads(os.environ.get('accounts')), keys in the order given.
LoadAccounts(order) ==
    [a \in Range(order) |-> AccountDict([s \in StatusLabels |-> EmptyDict])]

\* Line 16: the query libtelco5g.set_defaults() gives.
DefaultQuery == "default query"

\* Line 68.
CommentsQuery ==
    "case_summary:*webscale* OR case_tags:*shift_telco5g* OR case_summary:*cnv,* OR case_tags:*cnv*"

\* Line 94 without the comparison of the title.
NoTitleCheck(link) == TRUE

\* Line 94: t.raw['object']['title'] == "Support Case"
IsSupportCaseLink(link) == link.title = "Support Case"

\* Lines 91-97: the case number the card's remote links give: the last link
\* titled "Support Case" whose URL holds a case number.
RECURSIVE LinkedCase(_, _)
LinkedCase(links, sofar) ==
    IF links = <<>> THEN sofar
    ELSE LinkedCase(Tail(links),
                    IF IsSupportCaseLink(links[1]) /\ Len(links[1].case_number) > 0
                    THEN links[1].case_number
                    ELSE sofar)

\* The window of line 110 with <= for <.
InclusiveCommentWindow(comment, time_now) == Days(time_now - comment.updated) <= 7

\* Line 110: (time_now - datetime.strptime(comment.updated, ...)).days < 7
InWindow(comment, time_now) == Days(time_now - comment.updated) < 7

\* Line 110: [comment.body for comment in ... if ...]
RECURSIVE WindowedBodies(_, _)
WindowedBodies(comments, time_now) ==
    IF comments = <<>> THEN <<>>
    ELSE (IF InWindow(comments[1], time_now) THEN <<comments[1].body>> ELSE <<>>)
         \o WindowedBodies(Tail(comments), time_now)

\* Line 110: the record of a card linked to a case of `cases` (the assignee,
\* which nothing reads, is left out).
Detail(card, case_num, time_now) ==
    [case |-> case_num,
     summary |-> card.summary,
     account |-> cases[case_num].account,
     card_status |-> card.status,
     comments |-> WindowedBodies(card.comments, time_now),
     tags |-> cases[case_num].tags]

\* Lines 111-112 without the pop.
KeepAnyDetail(detail) == TRUE

\* Lines 111-112: a record without comments is popped.
KeepDetail(detail) == Len(detail.comments) # 0

\* Line 123.
StandardMatch(detail, account, status) ==
    /\ Contains(Lower(account), Lower(detail.account))
    /\ status = detail.card_status

\* Line 125.
SummaryOverride(detail, account, status) ==
    /\ Contains(cnv, Lower(detail.summary))
    /\ status = detail.card_status
    /\ account = CNV

\* Lines 127-130 left out: the keyword is looked for in the summary only.
NoTagOverride(detail, account, status) == FALSE

\* Lines 127-130.
TagOverride(detail, account, status) ==
    /\ ~SummaryOverride(detail, account, status)
    /\ \E k \in 1..Len(detail.tags) :
          /\ Contains(cnv, Lower(detail.tags[k]))
          /\ status = detail.card_status
          /\ account = CNV

\* Lines 120-130: whether card i is put into accounts[account][status].
Filed(detail, account, status) ==
    \/ StandardMatch(detail, account, status)
    \/ SummaryOverride(detail, account, status)
    \/ TagOverride(detail, account, status)

\* Lines 133-135 left out.
NeverNoUpdates(value) == FALSE

\* Line 134: sum([len(accounts[account][status]) for status in ...]) == 0
HasNoUpdates(value) == \A s \in DOMAIN value.value : DOMAIN value.value[s] = {}

\* --- what the two services return ---

Link(title, case_number) == [title |-> title, case_number |-> case_number]

\* The remote links a card can have: none, one that is no support case,
\* support cases C1 and C2 (C2 after another link), a case that get_cases
\* does not hold, and a support case URL without a case number.
LinkLists ==
    << <<>>,
       <<Link("KB", "C1")>>,
       <<Link("Support Case", "C1")>>,
       <<Link("KB", "C1"), Link("Support Case", "C2")>>,
       <<Link("Support Case", "C9")>>,
       <<Link("Support Case", "")>> >>

\* Comments updated exactly 7 days ago and 6 days 23 hours ago.
OldComment == [body |-> <<"x">>, updated |-> TimeNow - 168]
FreshComment == [body |-> <<"x", " ", "URL">>, updated |-> TimeNow - 167]

CommentLists == << <<>>, <<OldComment>>, <<OldComment, FreshComment>> >>

Summaries == << <<"f", "i", "x">>, <<"C", "n", "v">> >>

\* The status of a card: one of the configured labels, or another one.
CardStatuses == <<"Closed", "Backlog">>

\* The cards of the board: one for every combination of the above; a card's
\* key is its number.
BoardSize == Len(Summaries) * Len(CardStatuses) * Len(LinkLists) * Len(CommentLists)

BoardCard(key) ==
    LET n0 == key - 1
        n1 == n0 \div Len(Summaries)
        n2 == n1 \div Len(CardStatuses)
        n3 == n2 \div Len(LinkLists)
    IN  [summary |-> Summaries[(n0 % Len(Summaries)) + 1],
         status |-> CardStatuses[(n1 % Len(CardStatuses)) + 1],
         links |-> LinkLists[(n2 % Len(LinkLists)) + 1],
         comments |-> CommentLists[(n3 % Len(CommentLists)) + 1]]

RECURSIVE SubsetsUpTo(_, _)
SubsetsUpTo(S, n) ==
    IF n = 0 THEN {{}}
    ELSE LET smaller == SubsetsUpTo(S, n - 1)
         IN  smaller \cup {T \cup {x} : T \in smaller, x \in S}

\* libtelco5g.get_cases(cases_json, include_tags=True)
KnownCases ==
    ("C1" :> [account |-> <<"a", "t", "t">>, tags |-> <<>>])
    @@ ("C2" :> [account |-> <<"B", "T">>, tags |-> << <<"x", "C", "N", "V">> >>])

\* os.environ['accounts']: the account names, in order.
AccountConfigs == { <<At, ATT, CNV>>, <<ATT, Bt>>, <<CNV, Bt>> }

\* --- the function, step by step ---

\* Line 67: the state set_cfg() leaves.
Init ==
    /\ pc = "set_cfg"
    /\ env_accounts \in AccountConfigs
    /\ cfg = [accounts |-> LoadAccounts(env_accounts), query |-> DefaultQuery]
    /\ cards = <<>>
    /\ cases = <<>>
    /\ cards_dict = <<>>
    /\ detailed_cards = <<>>
    /\ result = <<>>
    /\ cases_json = <<>>
    /\ new_cases = <<>>
    /\ text = <<>>
    /\ text1 = <<>>
    /\ text2 = <<>>

\* Lines 68-87: the query is overwritten, the cases and the cards of the sprint
\* updated in the last days (any few cards of the board) are fetched.
FetchCardsAndCases ==
    /\ pc = "set_cfg"
    /\ cfg' = [cfg EXCEPT !.query = CommentsQuery]
    /\ \E keys \in SubsetsUpTo(1..BoardSize, MaxCards) :
          /\ cards' = [k \in keys |-> BoardCard(k)]
          /\ cards_dict' = [k \in keys |-> None]
    /\ cases' = KnownCases
    /\ pc' = "associate"
    /\ UNCHANGED <<env_accounts, detailed_cards, result, caseVars, textVars>>

\* Lines 89-97.
AssociateCards ==
    /\ pc = "associate"
    /\ cards_dict' = [k \in DOMAIN cards_dict |-> LinkedCase(cards[k].links, cards_dict[k])]
    /\ pc' = "detail"
    /\ UNCHANGED <<cfg, env_accounts, cards, cases, detailed_cards, result, caseVars, textVars>>

\* Lines 99-112.
BuildDetailedCards ==
    /\ pc = "detail"
    /\ LET linked_cards == {k \in DOMAIN cards_dict : cards_dict[k] # None}
           known == {k \in linked_cards : cards_dict[k] \in DOMAIN cases}
           kept == {k \in known : KeepDetail(Detail(cards[k], cards_dict[k], TimeNow))}
       IN  detailed_cards' = [k \in kept |-> Detail(cards[k], cards_dict[k], TimeNow)]
    /\ pc' = "links"
    /\ UNCHANGED <<cfg, env_accounts, cards, cases, cards_dict, result, caseVars, textVars>>

\* Lines 113-117.
ReplaceJiraLinks ==
    /\ pc = "links"
    /\ detailed_cards' =
          [k \in DOMAIN detailed_cards |->
              [detailed_cards[k] EXCEPT
                  !.comments = [c \in 1..Len(@) |-> ReplaceLinks(@[c])]]]
    /\ pc' = "group"
    /\ UNCHANGED <<cfg, env_accounts, cards, cases, cards_dict, result, caseVars, textVars>>

\* Lines 118-130: accounts is cfg['accounts'] itself, not a copy.
GroupByAccount ==
    /\ pc = "group"
    /\ cfg' = [cfg EXCEPT !.accounts =
          [a \in DOMAIN @ |->
              AccountDict(
                [s \in DOMAIN @[a].value |->
                    [i \in DOMAIN @[a].value[s]
                           \cup {j \in DOMAIN detailed_cards : Filed(detailed_cards[j], a, s)}
                       |-> IF i \in DOMAIN detailed_cards /\ Filed(detailed_cards[i], a, s)
                           THEN detailed_cards[i]
                           ELSE @[a].value[s][i]]])]]
    /\ pc' = "no_updates"
    /\ UNCHANGED <<env_accounts, cards, cases, cards_dict, detailed_cards, result, caseVars, textVars>>

\* Lines 132-137.
ReturnAccounts ==
    /\ pc = "no_updates"
    /\ cfg' = [cfg EXCEPT !.accounts =
          [a \in DOMAIN @ |-> IF HasNoUpdates(@[a]) THEN AccountStr("No Updates") ELSE @[a]]]
    /\ result' = cfg'.accounts
    /\ pc' = "done"
    /\ UNCHANGED <<env_accounts, cards, cases, cards_dict, detailed_cards, caseVars, textVars>>

Next ==
    \/ FetchCardsAndCases
    \/ AssociateCards
    \/ BuildDetailedCards
    \/ ReplaceJiraLinks
    \/ GroupByAccount
    \/ ReturnAccounts

Spec == Init /\ [][Next]_vars

----------------------------------------------------------------------------
\* Properties of get_new_comments.

Done == pc = "done"

\* Card k is in result[a][s].
InBucket(k, a, s) ==
    /\ a \in DOMAIN result
    /\ result[a].type = "dict"
    /\ s \in DOMAIN result[a].value
    /\ k \in DOMAIN result[a].value[s]

\* The accounts card k appears under, at any status.
FiledUnder(k) == {a \in DOMAIN result : \E s \in StatusLabels \cup {cards[k].status} : InBucket(k, a, s)}

\* The case numbers of card k's links titled "Support Case".
SupportCases(k) ==
    {cards[k].links[i].case_number :
        i \in {j \in 1..Len(cards[k].links) : cards[k].links[j].title = "Support Case"}}

\* The comments of card k that are less than 7 days old, by position.
RecentComments(k) ==
    {c \in 1..Len(cards[k].comments) : Days(TimeNow - cards[k].comments[c].updated) < 7}

\* The keyword is in the card's summary or in a tag of its case.
HasKeyword(detail) ==
    \/ Contains(cnv, Lower(detail.summary))
    \/ \E t \in 1..Len(detail.tags) : Contains(cnv, Lower(detail.tags[t]))

\* The configured accounts whose name is in the card's account, in
\* configuration order.
Matching(detail) ==
    {n \in 1..Len(env_accounts) : Contains(Lower(env_accounts[n]), Lower(detail.account))}

\* C2 (as claimed): every configured account is a key of the result and maps
\* to a dict that has every configured status label as a key.
C2_EveryAccountEveryStatus ==
    Done =>
        \A n \in 1..Len(env_accounts) :
            /\ env_accounts[n] \in DOMAIN result
            /\ result[env_accounts[n]].type = "dict"
            /\ StatusLabels \subseteq DOMAIN result[env_accounts[n]].value

\* C2 (amended): the keys of the result are exactly the configured accounts;
\* an account no card was filed under maps to the string "No Updates", and
\* every other account maps to a dict that has every configured status label
\* as a key.
C2_AccountsOrNoUpdates ==
    Done =>
        /\ DOMAIN result = Range(env_accounts)
        /\ \A a \in DOMAIN result :
              IF \E k \in DOMAIN detailed_cards, s \in StatusLabels :
                    Filed(detailed_cards[k], a, s)
              THEN /\ result[a].type = "dict"
                   /\ DOMAIN result[a].value = StatusLabels
                   /\ \E s \in StatusLabels : DOMAIN result[a].value[s] # {}
              ELSE result[a] = [type |-> "str", value |-> "No Updates"]

\* One account with a card and one without any, in one result.
C2_Witness ==
    /\ Done
    /\ \E a, b \in DOMAIN result :
          /\ result[a].type = "str"
          /\ result[b].type = "dict"
          /\ \E s \in StatusLabels : DOMAIN result[b].value[s] = {}

\* C3 (as claimed): a card is filed, by the match of its account, under the
\* first configured account whose name matches and under no other, and under
\* none when no name matches.  (Stated for the cards the keyword override does
\* not apply to.)
C3_FirstMatchWins ==
    Done =>
        \A k \in DOMAIN detailed_cards :
            ~HasKeyword(detailed_cards[k]) =>
                LET m == Matching(detailed_cards[k])
                IN  FiledUnder(k) \subseteq
                        {env_accounts[n] : n \in {i \in m : \A j \in m : i <= j}}

\* C4: a comment of a correlated card is kept in the card's record iff
\* (now - comment.updated).days < 7: the record holds the (rewritten) bodies of
\* exactly those comments, in order, and the result holds that record.
C4_StrictSevenDays ==
    Done =>
        \A k \in DOMAIN detailed_cards :
            LET raw == cards[k].comments
                kept == detailed_cards[k].comments
                recent == RecentComments(k)
            IN  /\ Len(kept) = Cardinality(recent)
                /\ \A c \in recent :
                      kept[Cardinality({m \in recent : m <= c})] = ReplaceLinks(raw[c].body)
                /\ \A a \in DOMAIN result, s \in StatusLabels :
                      InBucket(k, a, s) => result[a].value[s][k].comments = kept

\* A filed card with a comment exactly 7 days old, dropped, and one 6 days
\* 23 hours old, kept.
C4_Witness ==
    /\ Done
    /\ \E k \in DOMAIN detailed_cards :
          /\ FiledUnder(k) # {}
          /\ \E c \in 1..Len(cards[k].comments) :
                TimeNow - cards[k].comments[c].updated = 7 * 24
          /\ \E c \in 1..Len(cards[k].comments) :
                TimeNow - cards[k].comments[c].updated = 6 * 24 + 23
          /\ Len(detailed_cards[k].comments) = 1

\* C5: a card without a link titled "Support Case", or whose support case is
\* not among the fetched cases, is in no bucket of the result (its case is
\* never looked up: line 109), and the function returns with the other cards:
\* those linked to a fetched case that have a recent comment are correlated.
C5_UnlinkedExcluded ==
    Done =>
        /\ DOMAIN result = Range(env_accounts)
        /\ \A k \in DOMAIN cards :
              IF SupportCases(k) \cap DOMAIN cases = {}
              THEN k \notin DOMAIN detailed_cards /\ FiledUnder(k) = {}
              ELSE RecentComments(k) # {} => k \in DOMAIN detailed_cards

\* A card with a recent comment linked to a case that was not fetched, left
\* out, beside a card that is filed.
C5_Witness ==
    /\ Done
    /\ \E k1, k2 \in DOMAIN cards :
          /\ SupportCases(k1) # {}
          /\ SupportCases(k1) \cap DOMAIN cases = {}
          /\ RecentComments(k1) # {}
          /\ FiledUnder(k1) = {}
          /\ FiledUnder(k2) # {}

\* C6: a card with no comment left after the windowing is in no bucket of the
\* result.
C6_NoCommentsNotFiled ==
    Done =>
        \A k \in DOMAIN cards :
            RecentComments(k) = {} => k \notin DOMAIN detailed_cards /\ FiledUnder(k) = {}

\* A card linked to a fetched case, with the keyword and the dedicated account
\* configured, whose only comments are too old.
C6_Witness ==
    /\ Done
    /\ CNV \in Range(env_accounts)
    /\ \E k \in DOMAIN cards :
          /\ cards_dict[k] \in DOMAIN cases
          /\ cards[k].status \in StatusLabels
          /\ Contains(cnv, Lower(cards[k].summary))
          /\ cards[k].comments # <<>>
          /\ RecentComments(k) = {}
          /\ FiledUnder(k) = {}

\* C9 (as claimed): every correlated card with the keyword in its summary or
\* tags is in the CNV bucket of its status, and also under the accounts its
\* case's account matches.  (Stated for the configurations that have the
\* dedicated CNV account.)
C9_KeywordOverride ==
    Done /\ CNV \in Range(env_accounts) =>
        \A k \in DOMAIN detailed_cards :
            HasKeyword(detailed_cards[k]) =>
                /\ InBucket(k, CNV, detailed_cards[k].card_status)
                /\ \A n \in Matching(detailed_cards[k]) :
                      InBucket(k, env_accounts[n], detailed_cards[k].card_status)

\* C9 (amended): when CNV is a configured account, every correlated card with
\* the keyword in its summary or tags whose status is a configured status
\* label is in the CNV bucket of its status, whatever its case's account; it
\* is also in the bucket of its status of every account its case's account
\* matches; a card whose status is no configured label is in no bucket.
C9_KeywordOverrideConfigured ==
    Done =>
        \A k \in DOMAIN detailed_cards :
            LET d == detailed_cards[k]
            IN  IF d.card_status \in StatusLabels
                THEN /\ HasKeyword(d) /\ CNV \in Range(env_accounts)
                            => InBucket(k, CNV, d.card_status)
                     /\ \A n \in Matching(d) : InBucket(k, env_accounts[n], d.card_status)
                ELSE FiledUnder(k) = {}

\* A card with the keyword only in a tag of its case, in the CNV bucket and in
\* the bucket of the account its case's account matches.
C9_Witness ==
    /\ Done
    /\ \E k \in DOMAIN detailed_cards :
          LET d == detailed_cards[k]
          IN  /\ ~Contains(cnv, Lower(d.summary))
              /\ HasKeyword(d)
              /\ ~Contains(cnv, Lower(d.account))
              /\ InBucket(k, CNV, d.card_status)
              /\ \E a \in DOMAIN result : a # CNV /\ InBucket(k, a, d.card_status)

\* C10: after get_new_comments returns, the configuration is as set_cfg built
\* it: the query and the accounts with their per-status dicts.
C10_ConfigUnchanged ==
    Done => cfg = [accounts |-> LoadAccounts(env_accounts), query |-> DefaultQuery]

====
